---- MODULE Spec2Model ----
(***************************************************************************)
(* A model of app.py: the POST /analyze handler of the repository analyzer *)
(* and the functions it calls (load_files, analyze_file,                   *)
(* extract_severity_counts, calculate_health_score, summarize_repo).       *)
(*                                                                         *)
(* A Python str is modelled as the sequence of its characters, each a      *)
(* one-character string, so that `in`, str.count, str.lower, str.join and  *)
(* os.path.splitext are computed on the characters as Python computes them.*)
(***************************************************************************)
EXTENDS Integers, Sequences, FiniteSets, TLC

VARIABLES
  pc,               \* position of the running code
  repo_url,         \* data.get("url")
  GITHUB_TOKEN,     \* os.getenv("GITHUB_TOKEN")
  auth_url,         \* the URL handed to Repo.clone_from
  tmpdir,           \* the TemporaryDirectory: "none", "exists" or "deleted"
  tree,             \* the directory tree under local_path
  walk,             \* os.walk's stack of directories still to yield
  root,             \* the directory os.walk yielded last (path components)
  dirs,             \* its sub-directories, after line 57's pruning
  files,            \* its files not yet visited by the inner loop
  files_data,       \* load_files' list
  reads,            \* the paths load_files has opened, in order
  loaded,           \* what load_files returned
  file_results,     \* analyze's list of analyze_file results
  findings_log,     \* the `findings` list of each analyze_file call, in order
  severity_counts,
  score,
  synth_calls,      \* number of client.chat.completions.create calls
  reply,            \* what that call did: raised, or the content it returned
  pending,          \* the return value or exception leaving the with block
  response          \* what the handler returned: [status, body]

vars == <<pc, repo_url, GITHUB_TOKEN, auth_url, tmpdir, tree, walk, root, dirs,
          files, files_data, reads, loaded, file_results, findings_log,
          severity_counts, score, synth_calls, reply, pending, response>>

\* Python's None, and the value of a name not yet assigned
None == [type |-> "NoneType"]

----------------------------------------------------------------------------
(* Python str operations, on sequences of characters *)

Upper == <<"A","B","C","D","E","F","G","H","I","J","K","L","M",
           "N","O","P","Q","R","S","T","U","V","W","X","Y","Z">>
Lower == <<"a","b","c","d","e","f","g","h","i","j","k","l","m",
           "n","o","p","q","r","s","t","u","v","w","x","y","z">>

\* str.lower() on one character
LowerChar(c) ==
  IF \E i \in 1..Len(Upper) : Upper[i] = c
  THEN Lower[CHOOSE i \in 1..Len(Upper) : Upper[i] = c]
  ELSE c

\* s.lower()
StrLower(s) == [i \in 1..Len(s) |-> LowerChar(s[i])]

\* s[i:i+len(sub)] == sub, for a 1-based i
MatchAt(s, sub, i) ==
  /\ i + Len(sub) - 1 <= Len(s)
  /\ \A k \in 1..Len(sub) : s[i + k - 1] = sub[k]

\* sub in s
Contains(s, sub) == \E i \in 1..(Len(s) - Len(sub) + 1) : MatchAt(s, sub, i)

\* s.find(sub, i) for a 1-based i; 0 when there is no occurrence
Find(s, sub, i) ==
  LET at == {j \in i..(Len(s) - Len(sub) + 1) : MatchAt(s, sub, j)}
  IN IF at = {} THEN 0 ELSE CHOOSE j \in at : \A k \in at : j <= k

\* s.count(sub): non-overlapping occurrences, scanning from the left
RECURSIVE CountFrom(_, _, _)
CountFrom(s, sub, i) ==
  LET j == Find(s, sub, i)
  IN IF j = 0 THEN 0 ELSE 1 + CountFrom(s, sub, j + Len(sub))

StrCount(s, sub) == CountFrom(s, sub, 1)

\* sep.join(parts)
RECURSIVE StrJoin(_, _)
StrJoin(sep, parts) ==
  IF parts = <<>> THEN <<>>
  ELSE IF Len(parts) = 1 THEN parts[1]
  ELSE parts[1] \o sep \o StrJoin(sep, Tail(parts))

\* s[:n]
Prefix(s, n) == SubSeq(s, 1, IF n < Len(s) THEN n ELSE Len(s))

----------------------------------------------------------------------------
(* CONFIG *)

MAX_FILES == 10
MAX_FILE_CHARS == 8000
MIN_FILE_CHARS == 300

ALLOWED_EXT == { <<".","p","y">>, <<".","j","s">>, <<".","j","s","x">>, <<".","t","s">>, <<".","t","s","x">>,   \* ".py", ".js", ".jsx", ".ts", ".tsx"
                 <<".","h","t","m","l">>, <<".","c","s","s">>, <<".","j","a","v","a">>, <<".","c","p","p">> }   \* ".html", ".css", ".java", ".cpp"

IGNORED_DIRS == { <<".","g","i","t">>, <<"n","o","d","e","_","m","o","d","u","l","e","s">>, <<"v","e","n","v">>, <<"_","_","p","y","c","a","c","h","e","_","_">>,   \* ".git", "node_modules", "venv", "__pycache__"
                  <<"d","i","s","t">>, <<"b","u","i","l","d">> }   \* "dist", "build"

----------------------------------------------------------------------------
(* SCORING LOGIC *)

\* f"[{level}]"
Tag(level) ==
  CASE level = "HIGH" -> <<"[","H","I","G","H","]">>   \* "[HIGH]"
    [] level = "MEDIUM" -> <<"[","M","E","D","I","U","M","]">>   \* "[MEDIUM]"
    [] level = "LOW" -> <<"[","L","O","W","]">>   \* "[LOW]"

RECURSIVE SumCount(_, _)
SumCount(analyses, sub) ==
  IF analyses = <<>> THEN 0
  ELSE StrCount(Head(analyses), sub) + SumCount(Tail(analyses), sub)

extract_severity_counts(analyses) ==
  [HIGH |-> SumCount(analyses, Tag("HIGH")),
   MEDIUM |-> SumCount(analyses, Tag("MEDIUM")),
   LOW |-> SumCount(analyses, Tag("LOW"))]

Max(a, b) == IF a >= b THEN a ELSE b

\* the score without the floor at 0
calculate_health_score_unclamped(counts) ==
  100 - counts.HIGH * 15 - counts.MEDIUM * 7 - counts.LOW * 3

calculate_health_score(counts) ==
  Max(100 - counts.HIGH * 15 - counts.MEDIUM * 7 - counts.LOW * 3, 0)

----------------------------------------------------------------------------
(* FILE ANALYSIS (RULE-BASED) *)

MsgHigh ==
  <<"[","H","I","G","H","]"," ","P","o","s","s","i","b","l","e"," ","h",
      "a","r","d","c","o","d","e","d"," ","A","P","I"," ","k","e","y"," ",
      "d","e","t","e","c","t","e","d"," ","→"," ","M","o","v","e"," ","s",
      "e","c","r","e","t","s"," ","t","o"," ","e","n","v","i","r","o","n",
      "m","e","n","t"," ","v","a","r","i","a","b","l","e","s">>   \* "[HIGH] Possible hardcoded API key detected → Move secrets to environment variables"
MsgMedium ==
  <<"[","M","E","D","I","U","M","]"," ","B","a","r","e"," ","e","x","c",
      "e","p","t"," ","c","l","a","u","s","e"," ","u","s","e","d"," ","→",
      " ","C","a","t","c","h"," ","s","p","e","c","i","f","i","c"," ","e",
      "x","c","e","p","t","i","o","n","s">>   \* "[MEDIUM] Bare except clause used → Catch specific exceptions"
MsgLow ==
  <<"[","L","O","W","]"," ","D","e","b","u","g"," ","p","r","i","n","t",
      " ","s","t","a","t","e","m","e","n","t","s"," ","f","o","u","n","d",
      " ","→"," ","R","e","p","l","a","c","e"," ","w","i","t","h"," ","l",
      "o","g","g","i","n","g">>   \* "[LOW] Debug print statements found → Replace with logging"
MsgNone ==
  <<"[","L","O","W","]"," ","N","o"," ","m","a","j","o","r"," ","i","s",
      "s","u","e","s"," ","d","e","t","e","c","t","e","d">>   \* "[LOW] No major issues detected"

\* the rules as an if/elif chain: only the first matching rule fires
FindingsElif(content) ==
  IF Contains(StrLower(content), <<"a","p","i","_","k","e","y">>) THEN <<MsgHigh>>   \* "api_key"
  ELSE IF Contains(content, <<"e","x","c","e","p","t",":">>) THEN <<MsgMedium>>   \* "except:"
  ELSE IF Contains(content, <<"p","r","i","n","t","(">>) THEN <<MsgLow>>   \* "print("
  ELSE <<MsgNone>>

\* the `findings` list analyze_file builds for a file's content
Findings(content) ==
  LET f1 == IF Contains(StrLower(content), <<"a","p","i","_","k","e","y">>) THEN <<MsgHigh>> ELSE <<>>   \* "api_key"
      f2 == f1 \o (IF Contains(content, <<"e","x","c","e","p","t",":">>) THEN <<MsgMedium>> ELSE <<>>)   \* "except:"
      f3 == f2 \o (IF Contains(content, <<"p","r","i","n","t","(">>) THEN <<MsgLow>> ELSE <<>>)   \* "print("
  IN IF f3 = <<>> THEN <<MsgNone>> ELSE f3

\* the string analyze_file returns
analyze_file(file) ==
  file.path \o <<":","\n">> \o StrJoin(<<"\n">>, Findings(file.content))   \* ":\n", "\n"

----------------------------------------------------------------------------
(* The file system under local_path.                                       *)
(* A directory is [name, files, dirs], both lists in the order the         *)
(* directory scan yields them; a file is [name, readable, head, size]: a   *)
(* text of `size` characters that starts with `head`.                      *)

File(name, head, size, readable) ==
  [name |-> name, head |-> head, size |-> size, readable |-> readable]

Dir(name, fs, ds) == [name |-> name, files |-> fs, dirs |-> ds]

\* f.read()
FileContent(file) ==
  file.head \o [i \in 1..(file.size - Len(file.head)) |-> "#"]

\* os.path.splitext(file)[1], for a name without separators
splitext_ext(file) ==
  LET dots == {i \in 1..Len(file) : file[i] = "."}
  IN IF dots = {} THEN <<>>
     ELSE LET d == CHOOSE i \in dots : \A j \in dots : j <= i
          IN IF \E k \in 1..(d - 1) : file[k] # "."
             THEN SubSeq(file, d, Len(file))
             ELSE <<>>

\* os.path.relpath(os.path.join(root, file), local_path)
relpath(rootpath, file) == StrJoin(<<"/">>, rootpath \o <<file>>)   \* "/"

\* [d for d in dirs if d not in IGNORED_DIRS]
RECURSIVE PruneDirs(_)
PruneDirs(ds) ==
  IF ds = <<>> THEN <<>>
  ELSE IF Head(ds).name \in IGNORED_DIRS THEN PruneDirs(Tail(ds))
  ELSE <<Head(ds)>> \o PruneDirs(Tail(ds))

\* the size test with both limits included
SizeOkInclusive(content) ==
  MIN_FILE_CHARS <= Len(content) /\ Len(content) <= MAX_FILE_CHARS

\* 300 < len(content) < MAX_FILE_CHARS
SizeOk(content) ==
  MIN_FILE_CHARS < Len(content) /\ Len(content) < MAX_FILE_CHARS

\* lines 60-72: the inner loop's body for one file
VisitOne(rootpath, file, data) ==
  IF splitext_ext(file.name) \in ALLOWED_EXT
     /\ file.readable
     /\ SizeOk(FileContent(file))
  THEN Append(data, [path |-> relpath(rootpath, file.name),
                     content |-> Prefix(FileContent(file), MAX_FILE_CHARS)])
  ELSE data

\* the cap tested with > instead of >=
CapReachedStrict(data) == Len(data) > MAX_FILES

\* line 74
CapReached(data) == Len(data) >= MAX_FILES

----------------------------------------------------------------------------
(* The inputs: bounded sets of file texts, directory trees and replies *)

MaxExtra == 2          \* files of one directory beyond MAX_FILES
MaxSub == 2            \* files in each sub-directory
MaxHandlerFiles == 2   \* plain files at the top of a tree the handler clones
MaxCount == 8          \* largest count of one severity given to the scorer
MaxFrags == 3          \* fragments concatenated into a text given to the scanner
MaxScanFiles == 2      \* files in a list given to scanner and aggregator

HeadPlain == <<"x"," ","="," ","1","\n">>   \* "x = 1\n"
HeadKey == <<"A","P","I","_","K","E","Y"," ","="," ","'","x","'","\n">>   \* "API_KEY = 'x'\n"
HeadExcept == <<"t","r","y",":","\n"," "," ","p","a","s","s","\n","e","x","c","e",
    "p","t",":","\n"," "," ","p","a","s","s","\n">>   \* "try:\n  pass\nexcept:\n  pass\n"
HeadPrint == <<"p","r","i","n","t","(","1",")","\n">>   \* "print(1)\n"
HeadAll == <<"A","p","i","_","K","e","y"," ","="," ","1","\n","e","x","c","e",
    "p","t",":","\n","p","r","i","n","t","(">>   \* "Api_Key = 1\nexcept:\nprint("
Heads == {HeadPlain, HeadKey, HeadExcept, HeadPrint, HeadAll}

\* n files a.py, b.py, ... of the smallest accepted size, starting with head
Bulk(n, head) ==
  [i \in 1..n |-> File(<<Lower[i]>> \o <<".","p","y">>, head, MIN_FILE_CHARS + 1, TRUE)]   \* ".py"

NotSource == File(<<"r","e","a","d","m","e",".","m","d">>, HeadPlain, MIN_FILE_CHARS + 1, TRUE)   \* "readme.md"
UpperExt == File(<<"m","a","i","n",".","P","Y">>, HeadPlain, MIN_FILE_CHARS + 1, TRUE)   \* "main.PY"
DotFile == File(<<".","p","y">>, HeadPlain, MIN_FILE_CHARS + 1, TRUE)   \* ".py"
NoExt == File(<<"M","a","k","e","f","i","l","e">>, HeadPlain, MIN_FILE_CHARS + 1, TRUE)   \* "Makefile"
TooSmall == File(<<"s","h","o","r","t",".","j","s">>, HeadPlain, MIN_FILE_CHARS, TRUE)   \* "short.js"
TooBig == File(<<"b","i","g",".","t","s">>, HeadPlain, MAX_FILE_CHARS, TRUE)   \* "big.ts"
Largest == File(<<"e","d","g","e",".","t","s","x">>, HeadPlain, MAX_FILE_CHARS - 1, TRUE)   \* "edge.tsx"
Locked == File(<<"l","o","c","k","e","d",".","p","y">>, HeadPlain, MIN_FILE_CHARS + 1, FALSE)   \* "locked.py"
Tagged == File(<<"[","H","I","G","H","]",".","p","y">>, HeadPlain, MIN_FILE_CHARS + 1, TRUE)   \* "[HIGH].py"

Specials == {NotSource, UpperExt, DotFile, NoExt, TooSmall, TooBig, Largest,
             Locked, Tagged}

\* the sub-directories of the top directory
DirShapes ==
  {<<>>}
  \cup {<<Dir(<<"s","r","c">>, Bulk(m, HeadPlain), <<>>)>> : m \in 1..MaxSub}   \* "src"
  \cup {<<Dir(<<"n","o","d","e","_","m","o","d","u","l","e","s">>, Bulk(m, HeadPlain), <<>>),   \* "node_modules"
          Dir(<<"s","r","c">>, Bulk(m, HeadPlain),   \* "src"
              <<Dir(<<"b","u","i","l","d">>, Bulk(m, HeadPlain), <<>>),   \* "build"
                Dir(<<"l","i","b">>, Bulk(m, HeadPlain), <<>>)>>),   \* "lib"
          Dir(<<"d","o","c","s">>, Bulk(m, HeadPlain), <<>>)>> : m \in 1..MaxSub}   \* "docs"
  \cup {<<Dir(<<"l","i","b">>, <<>>,   \* "lib"
              <<Dir(<<"v","e","n","v">>, Bulk(m, HeadPlain),   \* "venv"
                    <<Dir(<<"p","k","g">>, Bulk(m, HeadPlain), <<>>)>>)>>),   \* "pkg"
          Dir(<<".","g","i","t">>, Bulk(m, HeadPlain), <<>>)>> : m \in 1..MaxSub}   \* ".git"

\* the trees load_files is run on
RichTrees ==
  {Dir(<<>>, sp \o Bulk(n, HeadPlain), ds) :
     sp \in {<<>>} \cup {<<f>> : f \in Specials},
     n \in 0..(MAX_FILES + MaxExtra),
     ds \in DirShapes}

\* the trees a clone may produce in the handler
HandlerTrees ==
  {Dir(<<>>, sp \o Bulk(n, head), ds) :
     sp \in {<<>>, <<TooSmall>>, <<Tagged>>},
     n \in 0..MaxHandlerFiles,
     head \in Heads,
     ds \in {<<>>, <<Dir(<<"[","M","E","D","I","U","M","]">>, Bulk(1, HeadPlain), <<>>)>>}}   \* "[MEDIUM]"

----------------------------------------------------------------------------
(* load_files, one step per directory yielded and per file visited *)

\* line 54, and os.walk(local_path) starting at the top directory
LoadStart ==
  /\ pc = "load"
  /\ files_data' = <<>>
  /\ reads' = <<>>
  /\ walk' = <<[path |-> <<>>, node |-> tree]>>
  /\ pc' = "walk"
  /\ UNCHANGED <<repo_url, GITHUB_TOKEN, auth_url, tmpdir, tree, root, dirs,
                 files, loaded, file_results, findings_log, severity_counts,
                 score, synth_calls, reply, pending, response>>

\* lines 56-57: os.walk yields the next directory; its dirs are pruned in place
WalkNext ==
  /\ pc = "walk"
  /\ walk # <<>>
  /\ root' = Head(walk).path
  /\ dirs' = PruneDirs(Head(walk).node.dirs)
  /\ files' = Head(walk).node.files
  /\ walk' = Tail(walk)
  /\ pc' = "files"
  /\ UNCHANGED <<repo_url, GITHUB_TOKEN, auth_url, tmpdir, tree, files_data,
                 reads, loaded, file_results, findings_log, severity_counts,
                 score, synth_calls, reply, pending, response>>

\* lines 59-72: one iteration of `for file in files`
VisitFile ==
  /\ pc = "files"
  /\ files # <<>>
  /\ files_data' = VisitOne(root, Head(files), files_data)
  /\ reads' = IF splitext_ext(Head(files).name) \in ALLOWED_EXT
              THEN Append(reads, relpath(root, Head(files).name))
              ELSE reads
  /\ files' = Tail(files)
  /\ UNCHANGED <<pc, repo_url, GITHUB_TOKEN, auth_url, tmpdir, tree, walk, root,
                 dirs, loaded, file_results, findings_log, severity_counts,
                 score, synth_calls, reply, pending, response>>

\* lines 74-75, then os.walk resumes: the kept sub-directories are walked
\* next, in order, before the directories already waiting
EndDir ==
  /\ pc = "files"
  /\ files = <<>>
  /\ IF CapReached(files_data)
     THEN /\ pc' = "return"
          /\ walk' = walk
     ELSE /\ pc' = "walk"
          /\ walk' = [i \in 1..Len(dirs) |->
                        [path |-> Append(root, dirs[i].name), node |-> dirs[i]]]
                     \o walk
  /\ UNCHANGED <<repo_url, GITHUB_TOKEN, auth_url, tmpdir, tree, root, dirs,
                 files, files_data, reads, loaded, file_results, findings_log,
                 severity_counts, score, synth_calls, reply, pending, response>>

\* os.walk is exhausted
WalkEnd ==
  /\ pc = "walk"
  /\ walk = <<>>
  /\ pc' = "return"
  /\ UNCHANGED <<repo_url, GITHUB_TOKEN, auth_url, tmpdir, tree, walk, root,
                 dirs, files, files_data, reads, loaded, file_results,
                 findings_log, severity_counts, score, synth_calls, reply, pending,
                 response>>

\* line 77
LoadReturn ==
  /\ pc = "return"
  /\ loaded' = Prefix(files_data, MAX_FILES)
  /\ pc' = "loaded"
  /\ UNCHANGED <<repo_url, GITHUB_TOKEN, auth_url, tmpdir, tree, walk, root,
                 dirs, files, files_data, reads, file_results, findings_log,
                 severity_counts, score, synth_calls, reply, pending, response>>

----------------------------------------------------------------------------
(* FINAL SUMMARY (GPT)                                                     *)
(* The reply of the completions service is a sequence of pieces: a         *)
(* "```json" fence, a "```" fence, whitespace, prose, or the text of one   *)
(* complete JSON document (with the value it denotes).                     *)

FenceJson == [t |-> "fence_json"]   \* the text ```json
Fence == [t |-> "fence"]            \* the text ```
Space == [t |-> "whitespace"]
Prose == [t |-> "prose"]
Json(v) == [t |-> "json", v |-> v]

\* text.replace("```json", "").replace("```", "")
StripFences(text) ==
  SelectSeq(text, LAMBDA c : c.t # "fence_json" /\ c.t # "fence")

\* text.strip()
RECURSIVE StripLeft(_)
StripLeft(text) ==
  IF text # <<>> /\ Head(text).t = "whitespace" THEN StripLeft(Tail(text))
  ELSE text

RECURSIVE StripRight(_)
StripRight(text) ==
  IF text # <<>> /\ text[Len(text)].t = "whitespace"
  THEN StripRight(SubSeq(text, 1, Len(text) - 1))
  ELSE text

Strip(text) == StripRight(StripLeft(text))

\* json.loads accepts exactly one document
JsonValid(text) == Len(text) = 1 /\ text[1].t = "json"

\* a reply that is not valid JSON answered by a locally made report
ParseReplyLenient(content) ==
  IF content = None
  THEN [kind |-> "raise", exc |-> "AttributeError"]
  ELSE LET text == Strip(StripFences(content.text))
       IN IF JsonValid(text)
          THEN [kind |-> "return", value |-> text[1].v]
          ELSE [kind |-> "return", value |-> [summary |-> "unparsed"]]

\* lines 142-144, for a reply whose content is `content` (None or pieces):
\* what summarize_repo returns, or the exception it raises
ParseReply(content) ==
  IF content = None
  THEN [kind |-> "raise", exc |-> "AttributeError"]
  ELSE LET text == Strip(StripFences(content.text))
       IN IF JsonValid(text)
          THEN [kind |-> "return", value |-> text[1].v]
          ELSE [kind |-> "raise", exc |-> "JSONDecodeError"]

----------------------------------------------------------------------------
(* ROUTES: POST /analyze *)

PyStr(v) == [type |-> "str", val |-> v]
PyInt(v) == [type |-> "int", val |-> v]

\* the url test as `is not None`
TruthyNotNone(v) == v.type # "NoneType"

\* Python truthiness of a JSON value or an environment value
Truthy(v) ==
  CASE v.type = "NoneType" -> FALSE
    [] v.type = "str" -> v.val # <<>>
    [] v.type = "int" -> v.val # 0

\* s.replace(old, new), old non-empty
RECURSIVE ReplaceFrom(_, _, _, _)
ReplaceFrom(s, old, new, i) ==
  LET j == Find(s, old, i)
  IN IF j = 0 THEN SubSeq(s, i, Len(s))
     ELSE SubSeq(s, i, j - 1) \o new \o ReplaceFrom(s, old, new, j + Len(old))

StrReplace(s, old, new) == ReplaceFrom(s, old, new, 1)

\* lines 163-166
AuthUrl(url, token) ==
  IF Contains(url, <<"g","i","t","h","u","b",".","c","o","m">>) /\ Truthy(token)   \* "github.com"
  THEN StrReplace(url, <<"h","t","t","p","s",":","/","/">>, <<"h","t","t","p","s",":","/","/">> \o token.val \o <<"@">>)   \* "https://", "https://", "@"
  ELSE url

\* a Report with the given score
Report(s) ==
  [score |-> s, summary |-> "summary", roadmap |-> <<"item">>,
   details |-> <<"detail">>]

\* message.content of the service's reply, when the score sent was s
Replies(s) ==
  {None}
  \cup {[text |-> t] : t \in
         {<<Json(Report(s))>>,
          <<FenceJson, Space, Json(Report(s)), Space, Fence>>,
          <<Fence, Json(Report(s)), Fence>>,
          <<Space, Json(Report(0))>>,
          <<Json(Report(100))>>,
          <<Json([summary |-> "summary"])>>,
          <<Prose, Space, Json(Report(s))>>,
          <<Json(Report(s)), Space, Json(Report(s))>>,
          <<Prose>>,
          <<FenceJson, Fence>>,
          <<>>}}

\* the values of the request's url field, and of GITHUB_TOKEN
Urls == {None, PyStr(<<>>), PyInt(0), PyInt(5),
         PyStr(<<"h","t","t","p","s",":","/","/","g","i","t","h","u","b",".","c","o",
             "m","/","o","/","r">>), PyStr(<<"h","t","t","p","s",":","/","/","e","x","a","m","p","l","e",".","o",
             "r","g","/","r",".","g","i","t">>)}   \* "https://github.com/o/r", "https://example.org/r.git"
Tokens == {None, PyStr(<<"t","o","k">>)}   \* "tok"

\* jsonify(body), status
Reply(status, body) == [status |-> status, body |-> body]

\* a cleanup that runs on a return only, not when an exception leaves the block
CleanupOnReturnOnly(how) == IF how = "raise" THEN "exists" ELSE "deleted"

\* leaving the `with tempfile.TemporaryDirectory()` block, by a return or by
\* an exception: the directory's state afterwards
Cleanup(how) == "deleted"

\* lines 191-194
Handle500(exc) == Reply(500, [error |-> exc, trace |-> "Traceback"])

\* line 155: data.get("url") is falsy -> lines 157-158
NoUrl ==
  /\ pc = "start"
  /\ ~Truthy(repo_url)
  /\ response' = Reply(400, [error |-> "No URL provided"])
  /\ pc' = "done"
  /\ UNCHANGED <<repo_url, GITHUB_TOKEN, auth_url, tmpdir, tree, walk, root,
                 dirs, files, files_data, reads, loaded, file_results,
                 findings_log, severity_counts, score, synth_calls, reply, pending>>

\* line 161: the temporary directory is created
EnterWith ==
  /\ pc = "start"
  /\ Truthy(repo_url)
  /\ tmpdir' = "exists"
  /\ pc' = "auth"
  /\ UNCHANGED <<repo_url, GITHUB_TOKEN, auth_url, tree, walk, root, dirs, files,
                 files_data, reads, loaded, file_results, findings_log,
                 severity_counts, score, synth_calls, reply, pending, response>>

\* line 161: tempfile.TemporaryDirectory() itself raises -> lines 191-194
MkdtempFails ==
  /\ pc = "start"
  /\ Truthy(repo_url)
  /\ response' = Handle500("OSError")
  /\ pc' = "done"
  /\ UNCHANGED <<repo_url, GITHUB_TOKEN, auth_url, tmpdir, tree, walk, root,
                 dirs, files, files_data, reads, loaded, file_results,
                 findings_log, severity_counts, score, synth_calls, reply, pending>>

\* lines 163-166; `"github.com" in repo_url` raises for a url that is no str
BuildAuthUrl ==
  /\ pc = "auth"
  /\ IF repo_url.type = "str"
     THEN /\ auth_url' = PyStr(AuthUrl(repo_url.val, GITHUB_TOKEN))
          /\ pc' = "clone"
          /\ pending' = pending
     ELSE /\ pending' = [kind |-> "raise", exc |-> "TypeError"]
          /\ pc' = "exit_with"
          /\ auth_url' = auth_url
  /\ UNCHANGED <<repo_url, GITHUB_TOKEN, tmpdir, tree, walk, root, dirs, files,
                 files_data, reads, loaded, file_results, findings_log,
                 severity_counts, score, synth_calls, reply, response>>

\* line 168: the clone succeeds and fills local_path
CloneOk ==
  /\ pc = "clone"
  /\ \E t \in HandlerTrees : tree' = t
  /\ pc' = "load"
  /\ UNCHANGED <<repo_url, GITHUB_TOKEN, auth_url, tmpdir, walk, root, dirs,
                 files, files_data, reads, loaded, file_results, findings_log,
                 severity_counts, score, synth_calls, reply, pending, response>>

\* line 168: Repo.clone_from raises
CloneFails ==
  /\ pc = "clone"
  /\ pending' = [kind |-> "raise", exc |-> "GitCommandError"]
  /\ pc' = "exit_with"
  /\ UNCHANGED <<repo_url, GITHUB_TOKEN, auth_url, tmpdir, tree, walk, root,
                 dirs, files, files_data, reads, loaded, file_results,
                 findings_log, severity_counts, score, synth_calls, reply, response>>

\* the handler without lines 171-172: an empty list goes on to the scan
NoFilesFallThrough ==
  /\ pc = "loaded"
  /\ loaded = <<>>
  /\ file_results' = <<>>
  /\ findings_log' = <<>>
  /\ pc' = "scan"
  /\ UNCHANGED <<repo_url, GITHUB_TOKEN, auth_url, tmpdir, tree, walk, root,
                 dirs, files, files_data, reads, loaded, severity_counts, score,
                 synth_calls, reply, pending, response>>

\* lines 171-172
NoFiles ==
  /\ pc = "loaded"
  /\ loaded = <<>>
  /\ pending' = [kind |-> "return",
                 value |-> Reply(400, [error |-> "No readable source files found"])]
  /\ pc' = "exit_with"
  /\ UNCHANGED <<repo_url, GITHUB_TOKEN, auth_url, tmpdir, tree, walk, root,
                 dirs, files, files_data, reads, loaded, file_results,
                 findings_log, severity_counts, score, synth_calls, reply, response>>

\* line 174
ScanStart ==
  /\ pc = "loaded"
  /\ loaded # <<>>
  /\ file_results' = <<>>
  /\ findings_log' = <<>>
  /\ pc' = "scan"
  /\ UNCHANGED <<repo_url, GITHUB_TOKEN, auth_url, tmpdir, tree, walk, root,
                 dirs, files, files_data, reads, loaded, severity_counts, score,
                 synth_calls, reply, pending, response>>

\* lines 176-178: one iteration of `for f in files` (the sleep changes nothing)
ScanFile ==
  /\ pc = "scan"
  /\ Len(file_results) < Len(loaded)
  /\ LET f == loaded[Len(file_results) + 1]
     IN /\ file_results' = Append(file_results, analyze_file(f))
        /\ findings_log' = Append(findings_log, Findings(f.content))
  /\ UNCHANGED <<pc, repo_url, GITHUB_TOKEN, auth_url, tmpdir, tree, walk, root,
                 dirs, files, files_data, reads, loaded, severity_counts, score,
                 synth_calls, reply, pending, response>>

\* lines 180-181
Score ==
  /\ pc = "scan"
  /\ Len(file_results) = Len(loaded)
  /\ severity_counts' = extract_severity_counts(file_results)
  /\ score' = calculate_health_score(extract_severity_counts(file_results))
  /\ pc' = "summarize"
  /\ UNCHANGED <<repo_url, GITHUB_TOKEN, auth_url, tmpdir, tree, walk, root,
                 dirs, files, files_data, reads, loaded, file_results,
                 findings_log, synth_calls, reply, pending, response>>

\* lines 135-140: client.chat.completions.create raises
SummarizeFails ==
  /\ pc = "summarize"
  /\ synth_calls' = synth_calls + 1
  /\ reply' = [raised |-> TRUE]
  /\ pending' = [kind |-> "raise", exc |-> "APIError"]
  /\ pc' = "exit_with"
  /\ UNCHANGED <<repo_url, GITHUB_TOKEN, auth_url, tmpdir, tree, walk, root,
                 dirs, files, files_data, reads, loaded, file_results,
                 findings_log, severity_counts, score, response>>

\* lines 135-144 and 183-189: the service replies; the reply is parsed and
\* the parsed value is what the handler returns
Summarize ==
  /\ pc = "summarize"
  /\ synth_calls' = synth_calls + 1
  /\ \E content \in Replies(score) :
       LET r == ParseReply(content)
       IN /\ reply' = [raised |-> FALSE, content |-> content]
          /\ pending' = IF r.kind = "return"
                        THEN [kind |-> "return", value |-> Reply(200, r.value)]
                        ELSE r
  /\ pc' = "exit_with"
  /\ UNCHANGED <<repo_url, GITHUB_TOKEN, auth_url, tmpdir, tree, walk, root,
                 dirs, files, files_data, reads, loaded, file_results,
                 findings_log, severity_counts, score, response>>

\* the with block is left (the directory is cleaned up), then either the
\* value is returned or the exception reaches lines 191-194
ExitWith ==
  /\ pc = "exit_with"
  /\ tmpdir' = Cleanup(pending.kind)
  /\ response' = IF pending.kind = "return" THEN pending.value
                 ELSE Handle500(pending.exc)
  /\ pc' = "done"
  /\ UNCHANGED <<repo_url, GITHUB_TOKEN, auth_url, tree, walk, root, dirs, files,
                 files_data, reads, loaded, file_results, findings_log,
                 severity_counts, score, synth_calls, reply, pending>>

----------------------------------------------------------------------------
(* The request handler: one request from its arrival to its response *)

\* nothing has run yet
Fresh ==
  /\ auth_url = None
  /\ tmpdir = "none"
  /\ tree = None
  /\ walk = <<>>
  /\ root = <<>>
  /\ dirs = <<>>
  /\ files = <<>>
  /\ files_data = <<>>
  /\ reads = <<>>
  /\ loaded = <<>>
  /\ file_results = <<>>
  /\ findings_log = <<>>
  /\ severity_counts = None
  /\ score = None
  /\ synth_calls = 0
  /\ reply = None
  /\ pending = None
  /\ response = None

Init ==
  /\ pc = "start"
  /\ repo_url \in Urls
  /\ GITHUB_TOKEN \in Tokens
  /\ Fresh

Next ==
  \/ NoUrl
  \/ EnterWith
  \/ MkdtempFails
  \/ BuildAuthUrl
  \/ CloneOk
  \/ CloneFails
  \/ LoadStart
  \/ WalkNext
  \/ VisitFile
  \/ EndDir
  \/ WalkEnd
  \/ LoadReturn
  \/ NoFiles
  \/ ScanStart
  \/ ScanFile
  \/ Score
  \/ Summarize
  \/ SummarizeFails
  \/ ExitWith

Spec == Init /\ [][Next]_vars

----------------------------------------------------------------------------
(* load_files alone, on every tree of RichTrees *)

InitLoad ==
  /\ pc = "load"
  /\ repo_url = None
  /\ GITHUB_TOKEN = None
  /\ auth_url = None
  /\ tmpdir = "exists"
  /\ tree \in RichTrees
  /\ walk = <<>>
  /\ root = <<>>
  /\ dirs = <<>>
  /\ files = <<>>
  /\ files_data = <<>>
  /\ reads = <<>>
  /\ loaded = <<>>
  /\ file_results = <<>>
  /\ findings_log = <<>>
  /\ severity_counts = None
  /\ score = None
  /\ synth_calls = 0
  /\ reply = None
  /\ pending = None
  /\ response = None

NextLoad ==
  \/ LoadStart
  \/ WalkNext
  \/ VisitFile
  \/ EndDir
  \/ WalkEnd
  \/ LoadReturn

SpecLoad == InitLoad /\ [][NextLoad]_vars

----------------------------------------------------------------------------
(* analyze_file and extract_severity_counts alone, on lists of files *)

Fragments == { <<"a","p","i","_","k","e","y">>, <<"A","P","I","_","K","e","y">>, <<"a","p","i">>, <<"_","K","E","Y">>, <<"e","x","c","e","p","t",":">>,   \* "api_key", "API_Key", "api", "_KEY", "except:"
               <<"e","x","c","e","p","t">>, <<":">>, <<"p","r","i","n","t","(">>, <<"p","r","i","n","t">>, <<"(">> }   \* "except", ":", "print(", "print", "("

RECURSIVE TextsOf(_)
TextsOf(n) ==
  IF n = 0 THEN {<<>>}
  ELSE LET shorter == TextsOf(n - 1)
       IN shorter \cup {t \o f : t \in shorter, f \in Fragments}

ScanPaths == { <<"a","p","p",".","p","y">>, <<"s","r","c","/","[","H","I","G","H","]",".","p","y">>, <<"[","L","O","W","]","/","[","M","E","D","I","U","M","]",".","j","s">> }   \* "app.py", "src/[HIGH].py", "[LOW]/[MEDIUM].js"

ScanContents == {HeadPlain, HeadKey, HeadAll, <<"[","H","I","G","H","]"," ","p","r","i","n","t","(">>}   \* "[HIGH] print("

RECURSIVE ListsOf(_, _)
ListsOf(S, n) ==
  IF n = 0 THEN {<<>>}
  ELSE LET shorter == ListsOf(S, n - 1)
       IN shorter \cup {Append(l, x) : l \in shorter, x \in S}

ScanInputs ==
  {<<[path |-> <<"a","p","p",".","p","y">>, content |-> t]>> : t \in TextsOf(MaxFrags)}   \* "app.py"
  \cup ListsOf({[path |-> p, content |-> c] : p \in ScanPaths, c \in ScanContents},
               MaxScanFiles)

InitScan ==
  /\ pc = "scan"
  /\ repo_url = None
  /\ GITHUB_TOKEN = None
  /\ auth_url = None
  /\ tmpdir = "exists"
  /\ tree = None
  /\ walk = <<>>
  /\ root = <<>>
  /\ dirs = <<>>
  /\ files = <<>>
  /\ files_data = <<>>
  /\ reads = <<>>
  /\ loaded \in ScanInputs
  /\ file_results = <<>>
  /\ findings_log = <<>>
  /\ severity_counts = None
  /\ score = None
  /\ synth_calls = 0
  /\ reply = None
  /\ pending = None
  /\ response = None

NextScan ==
  \/ ScanFile
  \/ Score

SpecScan == InitScan /\ [][NextScan]_vars

----------------------------------------------------------------------------
(* calculate_health_score alone, on every SeverityCounts up to MaxCount *)

ApplyScore ==
  /\ pc = "scorer"
  /\ score' = calculate_health_score(severity_counts)
  /\ pc' = "scored"
  /\ UNCHANGED <<repo_url, GITHUB_TOKEN, auth_url, tmpdir, tree, walk, root,
                 dirs, files, files_data, reads, loaded, file_results,
                 findings_log, severity_counts, synth_calls, reply, pending,
                 response>>

InitScore ==
  /\ pc = "scorer"
  /\ repo_url = None
  /\ GITHUB_TOKEN = None
  /\ severity_counts \in [HIGH : 0..MaxCount, MEDIUM : 0..MaxCount,
                          LOW : 0..MaxCount]
  /\ auth_url = None
  /\ tmpdir = "none"
  /\ tree = None
  /\ walk = <<>>
  /\ root = <<>>
  /\ dirs = <<>>
  /\ files = <<>>
  /\ files_data = <<>>
  /\ reads = <<>>
  /\ loaded = <<>>
  /\ file_results = <<>>
  /\ findings_log = <<>>
  /\ score = None
  /\ synth_calls = 0
  /\ reply = None
  /\ pending = None
  /\ response = None

NextScore == ApplyScore

SpecScore == InitScore /\ [][NextScore]_vars

----------------------------------------------------------------------------
(* The claims *)

StartsWith(s, p) == Len(s) >= Len(p) /\ SubSeq(s, 1, Len(p)) = p

\* C1: for every SeverityCounts {HIGH: H, MEDIUM: M, LOW: L} with H, M, L >= 0,
\* calculate_health_score returns max(0, 100 - 15H - 7M - 3L), an integer
\* in [0,100].
C1_ScoreFormula ==
  pc = "scored" =>
    LET raw == 100 - 15 * severity_counts.HIGH - 7 * severity_counts.MEDIUM
                   - 3 * severity_counts.LOW
    IN /\ score = (IF raw < 0 THEN 0 ELSE raw)
       /\ score \in 0..100

\* the floor is used: the weighted sum exceeds 100
C1_Witness ==
  /\ pc = "scored"
  /\ 15 * severity_counts.HIGH + 7 * severity_counts.MEDIUM
       + 3 * severity_counts.LOW > 100
  /\ score = 0

\* C2: in every request that ends with a 200 response, whatever the service
\* replied, the score of the returned Report is the score the Health Scorer
\* computed from the Scanner's findings.
C2_ReportScoreIsComputedScore ==
  (pc = "done" /\ response.status = 200) =>
    /\ "score" \in DOMAIN response.body
    /\ response.body.score = score

\* path.split("/")
RECURSIVE PathParts(_)
PathParts(path) ==
  LET j == Find(path, <<"/">>, 1)
  IN IF j = 0 THEN <<path>>
     ELSE <<SubSeq(path, 1, j - 1)>> \o PathParts(SubSeq(path, j + 1, Len(path)))

\* C3: load_files returns at most MAX_FILES (10) entries; each has an
\* extension in ALLOWED_EXT, more than 300 and fewer than 8000 characters,
\* and lies under no directory named in IGNORED_DIRS, at any depth.
C3_SamplerFilters ==
  pc = "loaded" =>
    /\ Len(loaded) <= 10
    /\ \A i \in 1..Len(loaded) :
         LET parts == PathParts(loaded[i].path)
         IN /\ splitext_ext(parts[Len(parts)]) \in ALLOWED_EXT
            /\ Len(loaded[i].content) > 300
            /\ Len(loaded[i].content) < 8000
            /\ \A k \in 1..(Len(parts) - 1) : parts[k] \notin IGNORED_DIRS

\* the whole tree was walked: a file of exactly 8000 characters and the
\* files under node_modules, src/build were left out, others were returned
C3_Witness ==
  /\ pc = "loaded"
  /\ tree.files # <<>>
  /\ tree.files[1] = TooBig
  /\ tree.dirs # <<>>
  /\ tree.dirs[1].name \in IGNORED_DIRS
  /\ Len(loaded) > 0
  /\ Len(loaded) < MAX_FILES

\* sub occurs in s
Occurs(s, sub) ==
  \E i \in 1..Len(s) :
    /\ i + Len(sub) - 1 <= Len(s)
    /\ SubSeq(s, i, i + Len(sub) - 1) = sub

\* C4: analyze_file's findings are never empty; a HIGH finding is present iff
\* the lower-cased text contains "api_key", a MEDIUM finding iff the text
\* contains "except:", the LOW debug-print finding iff it contains "print(";
\* the LOW "No major issues detected" placeholder is present iff no rule
\* fired, and is then the only finding.
C4_RulesIndependent ==
  \A i \in 1..Len(findings_log) :
    LET content == loaded[i].content
        found == findings_log[i]
        Has(P(_)) == \E k \in 1..Len(found) : P(found[k])
        high == Occurs(StrLower(content), <<"a","p","i","_","k","e","y">>)   \* "api_key"
        medium == Occurs(content, <<"e","x","c","e","p","t",":">>)   \* "except:"
        low == Occurs(content, <<"p","r","i","n","t","(">>)   \* "print("
    IN /\ found # <<>>
       /\ Has(LAMBDA f : StartsWith(f, <<"[","H","I","G","H","]">>)) <=> high   \* "[HIGH]"
       /\ Has(LAMBDA f : StartsWith(f, <<"[","M","E","D","I","U","M","]">>)) <=> medium   \* "[MEDIUM]"
       /\ Has(LAMBDA f : f = MsgLow) <=> low
       /\ Has(LAMBDA f : f = MsgNone) <=> ~(high \/ medium \/ low)
       /\ Has(LAMBDA f : f = MsgNone) => found = <<MsgNone>>

\* all three rules fired on one text
C4_Witness ==
  /\ Len(findings_log) = 1
  /\ findings_log[1] = <<MsgHigh, MsgMedium, MsgLow>>

\* the findings of severity `level` the Scanner emitted, over all files
RECURSIVE Emitted(_, _)
Emitted(log, level) ==
  IF log = <<>> THEN 0
  ELSE Len(SelectSeq(Head(log), LAMBDA f : StartsWith(f, Tag(level))))
       + Emitted(Tail(log), level)

\* C5: extract_severity_counts, applied to the strings analyze_file returned
\* for the sampled files, counts for each severity exactly the findings of
\* that severity the Scanner emitted, for any relative path and content.
C5_CountsMatchFindings ==
  pc = "summarize" =>
    /\ severity_counts.HIGH = Emitted(findings_log, "HIGH")
    /\ severity_counts.MEDIUM = Emitted(findings_log, "MEDIUM")
    /\ severity_counts.LOW = Emitted(findings_log, "LOW")

\* the clone succeeded and load_files returned an empty list
SampledNothing ==
  /\ tree # None
  /\ pc \in {"loaded", "scan", "summarize", "exit_with", "done"}
  /\ loaded = <<>>

\* C6: when the clone succeeds and the Sampler returns an empty list, the
\* handler returns 400 {"error": "No readable source files found"} and the
\* Synthesizer is never invoked.
C6_EmptySampleIs400 ==
  SampledNothing =>
    /\ synth_calls = 0
    /\ reply = None
    /\ pc = "done" =>
         response = [status |-> 400,
                     body |-> [error |-> "No readable source files found"]]

C6_Witness ==
  /\ SampledNothing
  /\ pc = "done"
  /\ tree.files # <<>>
  /\ response.status = 400

\* the reply is one JSON document, with nothing but fences and whitespace
\* around it
OneJsonDocument(content) ==
  /\ content # None
  /\ \A k \in 1..Len(content.text) :
       content.text[k].t \in {"json", "fence_json", "fence", "whitespace"}
  /\ Cardinality({k \in 1..Len(content.text) : content.text[k].t = "json"}) = 1

\* a stage raised: an exception left the with block, the service call threw,
\* or its reply is not valid JSON after fence-stripping
StageRaised ==
  \/ pending # None /\ pending.kind = "raise"
  \/ reply # None /\ reply.raised
  \/ reply # None /\ ~reply.raised /\ ~OneJsonDocument(reply.content)

\* C7: with a non-empty url, if any stage raises, the handler returns 500
\* with a body of an error and a trace field and no Report field.
C7_FailureIs500 ==
  (pc = "done" /\ StageRaised) =>
    /\ response.status = 500
    /\ DOMAIN response.body = {"error", "trace"}

\* the service replied with prose and no JSON
C7_Witness ==
  /\ pc = "done"
  /\ reply # None
  /\ ~reply.raised
  /\ reply.content = [text |-> <<Prose>>]
  /\ response.status = 500

\* C8: the temporary directory a request acquired is deleted by the time
\* the handler has produced its response, on the 200, the 400 and the 500
\* exit paths.
C8_TempDirDeleted ==
  response # None =>
    /\ tmpdir # "exists"
    /\ (auth_url # None \/ pending # None) => tmpdir = "deleted"

\* the clone failed and the directory is gone
C8_Witness ==
  /\ pc = "done"
  /\ pending # None
  /\ pending.kind = "raise"
  /\ pending.exc = "GitCommandError"
  /\ response.status = 500
  /\ tmpdir = "deleted"

\* C9: a request whose url is absent or empty gets 400
\* {"error": "No URL provided"}, before a temporary directory is acquired
\* and before cloning, sampling or the Synthesizer.
C9_NoUrlIs400 ==
  (repo_url = None \/ repo_url = PyStr(<<>>)) =>
    /\ tmpdir = "none"
    /\ auth_url = None
    /\ tree = None
    /\ reads = <<>>
    /\ synth_calls = 0
    /\ pc = "done" =>
         response = [status |-> 400, body |-> [error |-> "No URL provided"]]

C9_Witness ==
  /\ pc = "done"
  /\ repo_url = PyStr(<<>>)
  /\ response.status = 400

\* the files load_files accepts, in the order os.walk meets them
RECURSIVE WalkOrder(_, _)
WalkOrder(path, node) ==
  LET Accepted(f) ==
        /\ splitext_ext(f.name) \in ALLOWED_EXT
        /\ f.readable
        /\ f.size > 300
        /\ f.size < 8000
      here == SelectSeq(node.files, Accepted)
      Below[k \in 0..Len(node.dirs)] ==
        IF k = 0 THEN <<>>
        ELSE Below[k - 1] \o
             (IF node.dirs[k].name \in IGNORED_DIRS THEN <<>>
              ELSE WalkOrder(Append(path, node.dirs[k].name), node.dirs[k]))
  IN [i \in 1..Len(here) |->
        [path |-> StrJoin(<<"/">>, Append(path, here[i].name)),
         content |-> FileContent(here[i])]]
     \o Below[Len(node.dirs)]

\* C10 as claimed: once 10 files are collected none is read or appended, and
\* the list never holds more than 10 entries.
C10_StopsAtTenthFile ==
  /\ [](Len(files_data) <= 10)
  /\ [][Len(files_data) >= 10 => (files_data' = files_data /\ reads' = reads)]_vars

\* C10, amended: the cap is tested when a directory's files have all been
\* visited; no directory is yielded once 10 files are collected, and the
\* result is the first 10 accepted files in walk order.
C10_StopsAtDirectoryEnd ==
  /\ pc = "walk" => Len(files_data) < 10
  /\ pc = "loaded" => loaded = Prefix(WalkOrder(<<>>, tree), 10)

\* a directory held more than 10 accepted files: all were collected, 10 returned
C10_Witness ==
  /\ pc = "loaded"
  /\ Len(files_data) > 10
  /\ Len(loaded) = 10

====
